---- MODULE Spec2Model ----
(***************************************************************************)
(* Eremos signal correlation and analytics engine.                         *)
(*                                                                         *)
(*   AgentCoordinator  (src/utils/signal.ts)    bounded signal buffer,     *)
(*                                              correlation rules,         *)
(*                                              composite emission         *)
(*   SignalAnalytics   (src/unnamed/part_001)   bounded signal history,    *)
(*                                              alert rules with cooldown  *)
(*                                                                         *)
(* Conventions                                                             *)
(*   - times are integer milliseconds; an ISO timestamp string written by  *)
(*     toISOString() and read back by new Date(..).getTime() denotes the   *)
(*     same integer, so a timestamp is kept as its millisecond value;      *)
(*   - a confidence is kept in hundredths (0.9 is 90); an optional field   *)
(*     is a set, {} when absent and {v} when present;                      *)
(*   - arithmetic on confidences is exact (rational), a composite's        *)
(*     confidence is the fraction num/den.                                 *)
(***************************************************************************)
EXTENDS Integers, Sequences, FiniteSets, TLC

VARIABLES
    now,               \* the wall clock, Date.now()
    signalBuffer,      \* AgentCoordinator.signalBuffer
    bufferSize,        \* AgentCoordinator.bufferSize
    correlationRules,  \* AgentCoordinator.correlationRules
    minted,            \* number of signals handed to an ingest operation so far
    results,           \* the `results` array of the last checkCorrelations run
    returned,          \* what the last ingest returned: <<>> for null, <<c>> for a composite
    evalLog,           \* per rule of the last run: the two clock reads and the composite's place
    lastOp,            \* name of the last operation called
    lastSignal,        \* the signal the last ingest operation was called with
    signals,           \* SignalAnalytics.signals
    maxSignals,        \* SignalAnalytics.maxSignals
    alertRules,        \* SignalAnalytics.alertRules
    lastAlerts,        \* SignalAnalytics.lastAlerts
    triggered,         \* the alerts the last addSignal returned
    answer,            \* what the last call returned when it was a query
    thrown             \* the error the last ingest ended with, {} when it returned

coordVars == <<signalBuffer, bufferSize, correlationRules, results, returned, evalLog,
               thrown>>
analyticsVars == <<signals, maxSignals, alertRules, lastAlerts, triggered, answer>>
vars == <<now, minted, lastOp, lastSignal, coordVars, analyticsVars>>

(***************************************************************************)
(* Bounds of the model                                                     *)
(***************************************************************************)
MaxCalls == 3          \* mutating calls made on the coordinator in the correlation runs
MaxHistoryCalls == 5   \* ingest calls in the capacity runs
MaxCapacity == 3       \* largest capacity a constructor or setter is given
MaxAnalyticsCalls == 3 \* signals added to the analytics history
MaxRuleCalls == 3      \* calls made in the rule registration runs

MaxAlertCalls == 3     \* calls made on the analytics engine in the alert runs

MaxRecentCalls == 3    \* signals added in the recent-signals runs
MaxLimit == 3          \* largest limit handed to getRecentSignals

MaxMetricsCalls == 2   \* signals added in the metrics runs

MaxPatternCalls == 3   \* signals added in the pattern runs

MaxTrendCalls == 2     \* signals added in the trend runs
MaxHours == 2          \* largest number of hours handed to getSignalTrends

MaxQueryCalls == 2     \* calls that change an engine in the query runs

MaxIntakeCalls == 2    \* ingest calls in the validation runs

MaxRemovalRules == 1   \* alert rules held on top of the default ones in the removal runs
MaxRemovalSignals == 1 \* signals added in the removal runs

MaxSwitchRules == 1    \* alert rules added on top of the default ones in the switch runs
MaxSwitchSignals == 2  \* signals added in the switch runs

MaxDriftCalls == 3     \* calls made on the coordinator in the clock drift runs

MaxSumCalls == 2       \* signals added in the sum runs

MaxCallbackCalls == 3  \* calls made on the coordinator in the callback runs
MaxDepth == 3          \* nested registerSignal calls before the call stack is full

(***************************************************************************)
(* Program constants                                                       *)
(***************************************************************************)
DefaultBufferSize == 1000
defaultTimeWindow == 60000
DefaultMaxSignals == 10000
DefaultRecentLimit == 50
DayMs == 86400000
TopLimit == 10
HourMs == 3600000
DefaultTrendHours == 24

CexFunding == "cex_funding_detected"
RapidDeployment == "rapid_deployment"
DormantWallet == "dormant_wallet_activated"
HighValueTx == "high_value_transaction"

\* the clock instants the runs move through: a start, the edge of the 30 s
\* window and one millisecond past it
T0 == 1000000
ClockValues == {T0, T0 + 30000, T0 + 30001}

(***************************************************************************)
(* Helpers                                                                 *)
(***************************************************************************)
Min(a, b) == IF a <= b THEN a ELSE b

Range(s) == {s[i] : i \in 1..Len(s)}

\* Array.prototype.shift(): drop the first element
Shift(s) == SubSeq(s, 2, Len(s))

\* value of an optional number under `x || 0`
OrZero(opt) == IF opt = {} THEN 0 ELSE CHOOSE v \in opt : TRUE

\* [...new Set(xs)]: first occurrences, in order
RECURSIVE Dedupe(_)
Dedupe(xs) ==
    IF xs = <<>> THEN <<>>
    ELSE LET front == Dedupe(SubSeq(xs, 1, Len(xs) - 1))
             x == xs[Len(xs)]
         IN IF x \in Range(front) THEN front ELSE Append(front, x)

\* xs.map(f) for a sequence
MapSeq(xs, F(_)) == [i \in 1..Len(xs) |-> F(xs[i])]

RECURSIVE SumConfidence(_)
SumConfidence(xs) ==
    IF xs = <<>> THEN 0
    ELSE SumConfidence(SubSeq(xs, 1, Len(xs) - 1)) + OrZero(xs[Len(xs)].confidence)

(***************************************************************************)
(* AgentCoordinator                                                        *)
(***************************************************************************)
\* constructor: options?.maxBufferSize || 1000
ConstructBufferSize(opt) ==
    IF opt = {} \/ opt = {0} THEN DefaultBufferSize ELSE CHOOSE v \in opt : TRUE

BuiltinRules == <<
    [id |-> "cex_rapid_deploy",
     requiredSignals |-> <<CexFunding, RapidDeployment>>,
     timeWindow |-> 30000, minConfidence |-> 80,
     outputPattern |-> "coordinated_launch_pattern"],
    [id |-> "ghost_wallet_activation",
     requiredSignals |-> <<DormantWallet, HighValueTx>>,
     timeWindow |-> 120000, minConfidence |-> 75,
     outputPattern |-> "suspicious_reactivation"] >>

\* registerSignal's fullSignal for a caller that passes agent, type and
\* confidence: the generated hash h, the timestamp read at t, source from agent
\* (glyph, id and agent are stored too and read by no operation)
FullSignal(sig, t, h) ==
    [type |-> sig.type, source |-> sig.agent, confidence |-> {sig.confidence},
     timestamp |-> t, hash |-> h]

\* variant: pop() where the code has shift(), the newest signal is dropped
PushBoundedPop(buf, s, size) ==
    LET pushed == Append(buf, s)
    IN IF Len(pushed) > size THEN SubSeq(pushed, 1, Len(pushed) - 1) ELSE pushed

\* push, then shift when over the buffer size
PushBounded(buf, s, size) ==
    LET pushed == Append(buf, s)
    IN IF Len(pushed) > size THEN Shift(pushed) ELSE pushed

\* variant: some() where the code has every()
CorrelateSignalsSome(buf, signalTypes, timeWindow, t) ==
    LET window == IF timeWindow = 0 THEN defaultTimeWindow ELSE timeWindow
        recentSignals == SelectSeq(buf, LAMBDA s : (t - s.timestamp) <= window)
        foundTypes == {recentSignals[i].type : i \in 1..Len(recentSignals)}
    IN \E i \in 1..Len(signalTypes) : signalTypes[i] \in foundTypes

\* correlateSignals(signalTypes, timeWindow) read at clock value t
CorrelateSignals(buf, signalTypes, timeWindow, t) ==
    LET window == IF timeWindow = 0 THEN defaultTimeWindow ELSE timeWindow
        recentSignals == SelectSeq(buf, LAMBDA s : (t - s.timestamp) <= window)
        foundTypes == {recentSignals[i].type : i \in 1..Len(recentSignals)}
    IN \A i \in 1..Len(signalTypes) : signalTypes[i] \in foundTypes

\* getRelevantSignals(signalTypes, timeWindow) read at clock value t
GetRelevantSignals(buf, signalTypes, timeWindow, t) ==
    SelectSeq(buf, LAMBDA s : (t - s.timestamp) <= timeWindow
                              /\ s.type \in Range(signalTypes))

\* variant: > where the code has >=
MeetsThresholdStrict(sigs, minConfidence) ==
    IF Len(sigs) = 0 THEN 0 > minConfidence
    ELSE SumConfidence(sigs) > minConfidence * Len(sigs)

\* calculateAverageConfidence(signals) >= minConfidence, in exact arithmetic:
\* sum / length >= min, and 0 >= min for no signals
MeetsThreshold(sigs, minConfidence) ==
    IF Len(sigs) = 0 THEN 0 >= minConfidence
    ELSE SumConfidence(sigs) >= minConfidence * Len(sigs)

\* variant: the boost without the cap of Math.min
BoostedConfidenceUncapped(sigs) ==
    IF Len(sigs) = 0 THEN [num |-> 0, den |-> 1]
    ELSE [num |-> 11 * SumConfidence(sigs), den |-> 1000 * Len(sigs)]

\* Math.min(avgConfidence * 1.1, 1.0) as a fraction of 1
BoostedConfidence(sigs) ==
    IF Len(sigs) = 0 THEN [num |-> 0, den |-> 1]
    ELSE [num |-> Min(11 * SumConfidence(sigs), 1000 * Len(sigs)),
          den |-> 1000 * Len(sigs)]

\* variant: the rule's id as the composite's type
MakeCompositeTypeFromId(rule, relevantSignals) ==
    [type |-> rule.id,
     confidence |-> BoostedConfidence(relevantSignals),
     contributingAgents |-> Dedupe(MapSeq(relevantSignals, LAMBDA s : s.source)),
     pattern |-> rule.id,
     ruleId |-> rule.id,
     triggerSignals |-> MapSeq(relevantSignals,
                               LAMBDA s : [type |-> s.type, hash |-> s.hash])]

\* variant: the sources as mapped, without the Set that removes repetitions
MakeCompositeAllSources(rule, relevantSignals) ==
    [type |-> rule.outputPattern,
     confidence |-> BoostedConfidence(relevantSignals),
     contributingAgents |-> MapSeq(relevantSignals, LAMBDA s : s.source),
     pattern |-> rule.id,
     ruleId |-> rule.id,
     triggerSignals |-> MapSeq(relevantSignals,
                               LAMBDA s : [type |-> s.type, hash |-> s.hash])]

\* the composite checkCorrelations builds for a rule
MakeComposite(rule, relevantSignals) ==
    [type |-> rule.outputPattern,
     confidence |-> BoostedConfidence(relevantSignals),
     contributingAgents |-> Dedupe(MapSeq(relevantSignals, LAMBDA s : s.source)),
     pattern |-> rule.id,
     ruleId |-> rule.id,
     triggerSignals |-> MapSeq(relevantSignals,
                               LAMBDA s : [type |-> s.type, hash |-> s.hash])]

\* emitCompositeSignal(composite) at clock value t: the composite, timestamped
\* (what it prints to the console is not kept)
EmitCompositeSignal(composite, t) ==
    [type |-> composite.type,
     confidence |-> composite.confidence,
     contributingAgents |-> composite.contributingAgents,
     pattern |-> composite.pattern,
     ruleId |-> composite.ruleId,
     triggerSignals |-> composite.triggerSignals,
     timestamp |-> t]

\* one iteration of the loop of checkCorrelations: the rule read at clock
\* values t1 (correlateSignals) and t2 (getRelevantSignals)
RuleEmits(buf, rule, t1, t2) ==
    /\ CorrelateSignals(buf, rule.requiredSignals, rule.timeWindow, t1)
    /\ MeetsThreshold(GetRelevantSignals(buf, rule.requiredSignals, rule.timeWindow, t2),
                      rule.minConfidence)

\* the clock reads of rule i when the clock moves from t to tj between the two
\* reads of rule k (k = 0: the clock stands still during the call)
ReadOne(i, k, t, tj) == IF k # 0 /\ i > k THEN tj ELSE t
ReadTwo(i, k, t, tj) == IF k # 0 /\ i >= k THEN tj ELSE t

RECURSIVE CheckCorrelations(_, _, _, _, _, _)
CheckCorrelations(buf, rules, n, k, t, tj) ==
    IF n = 0 THEN <<>>
    ELSE LET before == CheckCorrelations(buf, rules, n - 1, k, t, tj)
             rule == rules[n]
             t1 == ReadOne(n, k, t, tj)
             t2 == ReadTwo(n, k, t, tj)
         IN IF RuleEmits(buf, rule, t1, t2)
            THEN Append(before,
                        EmitCompositeSignal(
                            MakeComposite(rule, GetRelevantSignals(buf, rule.requiredSignals,
                                                                   rule.timeWindow, t2)),
                            t2))
            ELSE before

\* what the run leaves in the log, per rule: the two clock reads and the place
\* of the rule's composite in `results` (0 when the rule emitted none)
EvalLogOf(buf, rules, k, t, tj) ==
    [i \in 1..Len(rules) |->
        [t1 |-> ReadOne(i, k, t, tj), t2 |-> ReadTwo(i, k, t, tj),
         slot |-> IF RuleEmits(buf, rules[i], ReadOne(i, k, t, tj), ReadTwo(i, k, t, tj))
                  THEN Len(CheckCorrelations(buf, rules, i, k, t, tj))
                  ELSE 0]]

\* variant: the composite of the last rule that emitted
LastOrNull(rs) == IF Len(rs) > 0 THEN <<rs[Len(rs)]>> ELSE <<>>

\* results.length > 0 ? results[0] : null
FirstOrNull(rs) == IF Len(rs) > 0 THEN <<rs[1]>> ELSE <<>>

(***************************************************************************)
(* Inputs of the correlation runs                                          *)
(***************************************************************************)
Agents == {"A", "B"}

\* registerSignal({agent, type, confidence})
RegisterInputs == [agent : Agents, type : {CexFunding, RapidDeployment},
                   confidence : {90}]

\* processSignal(signal): the caller supplies source, timestamp and, optionally,
\* a confidence
ProcessInputs == [type : {CexFunding, RapidDeployment}, source : {"B"},
                  confidence : {{}, {60}, {100}}, timestamp : {T0 + 30001}]

\* rules a caller registers with addCorrelationRule
CustomRules == {
    [id |-> "funding_only", requiredSignals |-> <<CexFunding>>,
     timeWindow |-> 30000, minConfidence |-> 50, outputPattern |-> "funding_seen"],
    [id |-> "instant_pair", requiredSignals |-> <<CexFunding, RapidDeployment>>,
     timeWindow |-> 0, minConfidence |-> 60, outputPattern |-> "instant_launch"] }

NoSignal == [type |-> "", source |-> {}, agent |-> {}, confidence |-> {}, timestamp |-> {}]

\* no query made since the last call that changed an engine
NoAnswer == [op |-> "none"]

\* clock values a call may see the clock move to while it runs
Later(t) == {tj \in ClockValues : tj > t}

(***************************************************************************)
(* Operations of AgentCoordinator                                          *)
(***************************************************************************)
\* the tail shared by registerSignal and processSignal: push, bound the buffer,
\* run checkCorrelations with the clock moving from now to tj at rule k
Ingest(full, k, tj) ==
    LET buf == PushBounded(signalBuffer, full, bufferSize)
    IN /\ signalBuffer' = buf
       /\ results' = CheckCorrelations(buf, correlationRules, Len(correlationRules),
                                       k, now, tj)
       /\ evalLog' = EvalLogOf(buf, correlationRules, k, now, tj)
       /\ now' = IF k = 0 THEN now ELSE tj
       /\ minted' = minted + 1
       /\ answer' = NoAnswer
       /\ thrown' = {}
       /\ UNCHANGED <<bufferSize, correlationRules, signals, maxSignals, alertRules,
                      lastAlerts, triggered>>

RegisterSignal(sig, k, tj) ==
    /\ Ingest(FullSignal(sig, now, minted + 1), k, tj)
    /\ returned' = <<>>
    /\ lastOp' = "registerSignal"
    /\ lastSignal' = [type |-> sig.type, source |-> {}, agent |-> {sig.agent},
                      confidence |-> {sig.confidence}, timestamp |-> {}]

ProcessSignal(sig, k, tj) ==
    /\ Ingest([type |-> sig.type, source |-> sig.source, confidence |-> sig.confidence,
               timestamp |-> sig.timestamp, hash |-> minted + 1], k, tj)
    /\ returned' = FirstOrNull(results')
    /\ lastOp' = "processSignal"
    /\ lastSignal' = [type |-> sig.type, source |-> {sig.source}, agent |-> {},
                      confidence |-> sig.confidence, timestamp |-> {sig.timestamp}]

AddCorrelationRule(rule) ==
    /\ correlationRules' = Append(correlationRules, rule)
    /\ lastOp' = "addCorrelationRule"
    /\ answer' = NoAnswer
    /\ UNCHANGED <<now, minted, lastSignal, signalBuffer, bufferSize, results, returned,
                   evalLog, thrown, signals, maxSignals, alertRules, lastAlerts,
                   triggered>>

(***************************************************************************)
(* Rules with an action callback                                           *)
(***************************************************************************)
\* rule.action, by what the callback does: "registerSignal" hands a signal to
\* the same coordinator, "addCorrelationRule" registers a rule on it
ActionOf(rule) == IF "action" \in DOMAIN rule THEN rule.action ELSE "none"

\* the signal a "registerSignal" callback hands over
EchoInput == [agent |-> "callback", type |-> CexFunding, confidence |-> 90]

\* the rule an "addCorrelationRule" callback registers
SpawnedRule ==
    [id |-> "spawned", requiredSignals |-> <<RapidDeployment>>,
     timeWindow |-> 30000, minConfidence |-> 50, outputPattern |-> "spawned_seen"]

\* rules a caller registers in the callback runs
CallbackRules == {
    [id |-> "echo", requiredSignals |-> <<CexFunding>>, timeWindow |-> 30000,
     minConfidence |-> 50, outputPattern |-> "echoed", action |-> "registerSignal"],
    [id |-> "spawner", requiredSignals |-> <<RapidDeployment>>, timeWindow |-> 30000,
     minConfidence |-> 50, outputPattern |-> "spawning",
     action |-> "addCorrelationRule"],
    [id |-> "funding_only", requiredSignals |-> <<CexFunding>>,
     timeWindow |-> 30000, minConfidence |-> 50, outputPattern |-> "funding_seen"] }

\* checkCorrelations from rule i on, with `depth` calls of registerSignal made
\* by callbacks on the stack and h signals minted so far.  `for (const rule of
\* this.correlationRules)` reads the array's length at every step, so a rule
\* pushed by a callback is visited by the loop that is running; a callback's
\* registerSignal pushes its signal and runs checkCorrelations from rule 1 on
\* the same buffer.  A call that finds the stack full ends with a RangeError,
\* which unwinds every loop below it.
RECURSIVE RunCorrelations(_, _, _, _, _)
RunCorrelations(buf, rules, i, depth, h) ==
    IF i > Len(rules)
    THEN [buf |-> buf, rules |-> rules, results |-> <<>>, log |-> <<>>,
          minted |-> h, thrown |-> {}]
    ELSE LET rule == rules[i]
             relevantSignals == GetRelevantSignals(buf, rule.requiredSignals,
                                                   rule.timeWindow, now)
             emits == RuleEmits(buf, rule, now, now)
             emitted == IF emits
                        THEN <<EmitCompositeSignal(MakeComposite(rule, relevantSignals),
                                                   now)>>
                        ELSE <<>>
             entry == [rule |-> i, t1 |-> now, t2 |-> now, emitted |-> emits]
             called ==
                 CASE emits /\ ActionOf(rule) = "registerSignal" ->
                          IF depth >= MaxDepth
                          THEN [buf |-> buf, rules |-> rules, minted |-> h,
                                thrown |-> {"RangeError"}]
                          ELSE LET inner == RunCorrelations(
                                       PushBounded(buf, FullSignal(EchoInput, now, h + 1),
                                                   bufferSize),
                                       rules, 1, depth + 1, h + 1)
                               IN [buf |-> inner.buf, rules |-> inner.rules,
                                   minted |-> inner.minted, thrown |-> inner.thrown]
                   [] emits /\ ActionOf(rule) = "addCorrelationRule" ->
                          [buf |-> buf, rules |-> Append(rules, SpawnedRule),
                           minted |-> h, thrown |-> {}]
                   [] OTHER ->
                          [buf |-> buf, rules |-> rules, minted |-> h, thrown |-> {}]
             rest == RunCorrelations(called.buf, called.rules, i + 1, depth,
                                     called.minted)
         IN IF called.thrown # {}
            THEN [buf |-> called.buf, rules |-> called.rules, results |-> emitted,
                  log |-> <<entry>>, minted |-> called.minted,
                  thrown |-> called.thrown]
            ELSE [buf |-> rest.buf, rules |-> rest.rules,
                  results |-> emitted \o rest.results, log |-> <<entry>> \o rest.log,
                  minted |-> rest.minted, thrown |-> rest.thrown]

\* the log of the outermost loop: per rule visited, its index, its clock reads
\* and the place of its composite in `results`
VisitLog(log) ==
    [k \in 1..Len(log) |->
        [rule |-> log[k].rule, t1 |-> log[k].t1, t2 |-> log[k].t2,
         slot |-> IF log[k].emitted
                  THEN Cardinality({j \in 1..k : log[j].emitted})
                  ELSE 0]]

\* the tail shared by registerSignal and processSignal on a coordinator whose
\* rules have callbacks
IngestCalling(full) ==
    LET run == RunCorrelations(PushBounded(signalBuffer, full, bufferSize),
                               correlationRules, 1, 0, minted + 1)
    IN /\ signalBuffer' = run.buf
       /\ correlationRules' = run.rules
       /\ results' = run.results
       /\ evalLog' = VisitLog(run.log)
       /\ minted' = run.minted
       /\ thrown' = run.thrown
       /\ answer' = NoAnswer
       /\ UNCHANGED <<now, bufferSize, signals, maxSignals, alertRules, lastAlerts,
                      triggered>>

RegisterSignalCalling(sig) ==
    /\ IngestCalling(FullSignal(sig, now, minted + 1))
    /\ returned' = <<>>
    /\ lastOp' = "registerSignal"
    /\ lastSignal' = [type |-> sig.type, source |-> {}, agent |-> {sig.agent},
                      confidence |-> {sig.confidence}, timestamp |-> {}]

ProcessSignalCalling(sig) ==
    /\ IngestCalling([type |-> sig.type, source |-> sig.source,
                      confidence |-> sig.confidence, timestamp |-> sig.timestamp,
                      hash |-> minted + 1])
    /\ returned' = IF thrown' = {} THEN FirstOrNull(results') ELSE <<>>
    /\ lastOp' = "processSignal"
    /\ lastSignal' = [type |-> sig.type, source |-> {sig.source}, agent |-> {},
                      confidence |-> sig.confidence, timestamp |-> {sig.timestamp}]

\* a call of the public correlateSignals(signalTypes, timeWindow?)
CorrelateSignalsCall(signalTypes, timeWindow) ==
    /\ answer' = [op |-> "correlateSignals", signalTypes |-> signalTypes,
                  timeWindow |-> timeWindow, at |-> now,
                  value |-> CorrelateSignals(signalBuffer, signalTypes,
                                             OrZero(timeWindow), now)]
    /\ lastOp' = "correlateSignals"
    /\ UNCHANGED <<now, minted, lastSignal, coordVars, signals, maxSignals, alertRules,
                   lastAlerts, triggered>>

\* getActiveSignals(timeWindow = this.defaultTimeWindow)
GetActiveSignals(timeWindow) ==
    LET window == IF timeWindow = {} THEN defaultTimeWindow
                  ELSE CHOOSE w \in timeWindow : TRUE
    IN /\ answer' = [op |-> "getActiveSignals", timeWindow |-> timeWindow, at |-> now,
                     value |-> SelectSeq(signalBuffer,
                                         LAMBDA s : (now - s.timestamp) <= window)]
       /\ lastOp' = "getActiveSignals"
       /\ UNCHANGED <<now, minted, lastSignal, coordVars, signals, maxSignals, alertRules,
                      lastAlerts, triggered>>

\* getSignalStats()
GetSignalStats ==
    /\ answer' = [op |-> "getSignalStats",
                  value |-> [total |-> Len(signalBuffer),
                             unique_types |-> Cardinality({signalBuffer[i].type :
                                                             i \in 1..Len(signalBuffer)}),
                             agents |-> Cardinality({signalBuffer[i].source :
                                                       i \in 1..Len(signalBuffer)})]]
    /\ lastOp' = "getSignalStats"
    /\ UNCHANGED <<now, minted, lastSignal, coordVars, signals, maxSignals, alertRules,
                   lastAlerts, triggered>>

\* time passes between calls
Tick ==
    /\ \E t \in Later(now) : now' = t
    /\ UNCHANGED <<minted, lastOp, lastSignal, coordVars, analyticsVars>>

(***************************************************************************)
(* SignalAnalytics                                                         *)
(***************************************************************************)
NoMetadata == [pattern |-> {}, dormancyDays |-> {}, deploysPerMinute |-> {}]

\* the condition closures of the rules, named by the rule they come with
Condition(name, s) ==
    CASE name = "high_confidence_launch" ->
            s.type = "launch_detected" /\ OrZero(s.confidence) > 90
      [] name = "coordinated_pattern" ->
            s.type = "coordinated_launch_pattern" \/ s.type = "suspicious_reactivation"
      [] name = "ghost_wallet_activity" ->
            s.type = DormantWallet /\ OrZero(s.metadata.dormancyDays) > 180
      [] name = "rapid_deployment_burst" ->
            s.type = RapidDeployment /\ OrZero(s.metadata.deploysPerMinute) > 5
      [] name = "rule2" ->
            OrZero(s.confidence) > 90
      [] OTHER -> FALSE

\* setupDefaultAlertRules()
DefaultAlertRules == <<
    [id |-> "high_confidence_launch", condition |-> "high_confidence_launch",
     priority |-> "high", cooldown |-> 30000, enabled |-> TRUE],
    [id |-> "coordinated_pattern", condition |-> "coordinated_pattern",
     priority |-> "critical", cooldown |-> 60000, enabled |-> TRUE],
    [id |-> "ghost_wallet_activity", condition |-> "ghost_wallet_activity",
     priority |-> "medium", cooldown |-> 120000, enabled |-> TRUE],
    [id |-> "rapid_deployment_burst", condition |-> "rapid_deployment_burst",
     priority |-> "medium", cooldown |-> 180000, enabled |-> TRUE] >>

\* this.lastAlerts[id] || 0
LastAlertOf(last, id) == IF id \in DOMAIN last THEN last[id] ELSE 0

\* this.lastAlerts[id] = t
SetLastAlert(last, id, t) ==
    [x \in DOMAIN last \cup {id} |-> IF x = id THEN t ELSE last[x]]

\* triggerAlert(rule, signal) at clock value t
TriggerAlert(rule, s, t) ==
    [ruleId |-> rule.id, priority |-> rule.priority, signal |-> s, triggeredAt |-> t]

\* whether the body of the forEach of checkAlerts fires the rule, given the
\* last-alert table as the earlier rules of the same call left it
AlertFires(rule, last, s, t) ==
    /\ rule.enabled
    /\ ~ (t - LastAlertOf(last, rule.id) < rule.cooldown)
    /\ Condition(rule.condition, s)

\* checkAlerts(signal) over the first n rules: the alerts and the table
RECURSIVE CheckAlerts(_, _, _, _, _)
CheckAlerts(rules, n, last, s, t) ==
    IF n = 0 THEN [alerts |-> <<>>, last |-> last]
    ELSE LET before == CheckAlerts(rules, n - 1, last, s, t)
         IN IF AlertFires(rules[n], before.last, s, t)
            THEN [alerts |-> Append(before.alerts, TriggerAlert(rules[n], s, t)),
                  last |-> SetLastAlert(before.last, rules[n].id, t)]
            ELSE before

\* variant: pop() where the code has shift(), the newest signal is dropped
PushLimitedPop(hist, s, limit) ==
    LET pushed == Append(hist, s)
    IN IF Len(pushed) > limit THEN SubSeq(pushed, 1, Len(pushed) - 1) ELSE pushed

\* the history after addSignal's push and its shift over the limit
PushLimited(hist, s, limit) ==
    LET pushed == Append(hist, s)
    IN IF Len(pushed) > limit THEN Shift(pushed) ELSE pushed

\* Array.prototype.slice(-n): -0 is 0, so slice(-0) is the whole array
SliceLast(hist, n) ==
    IF n = 0 THEN hist
    ELSE IF n >= Len(hist) THEN hist
    ELSE SubSeq(hist, Len(hist) - n + 1, Len(hist))

\* the history after setMaxHistorySize(size)
Truncated(hist, size) == IF Len(hist) > size THEN SliceLast(hist, size) ELSE hist

\* the caller's signal, with the fingerprint h
AnalyticsSignal(sig, h) ==
    [type |-> sig.type, source |-> sig.source, agent |-> sig.agent,
     confidence |-> sig.confidence, timestamp |-> sig.timestamp,
     metadata |-> sig.metadata, hash |-> h]

AddSignalEffect(sig) ==
    LET s == AnalyticsSignal(sig, minted + 1)
        checked == CheckAlerts(alertRules, Len(alertRules), lastAlerts, s, now)
    IN /\ signals' = PushLimited(signals, s, maxSignals)
       /\ lastAlerts' = checked.last
       /\ triggered' = checked.alerts
       /\ minted' = minted + 1
       /\ lastSignal' = [type |-> sig.type, source |-> {sig.source}, agent |-> sig.agent,
                         confidence |-> sig.confidence, timestamp |-> sig.timestamp]
       /\ answer' = NoAnswer
       /\ UNCHANGED <<now, maxSignals, alertRules, coordVars>>

AddSignal(sig) ==
    /\ AddSignalEffect(sig)
    /\ lastOp' = "addSignal"

\* recordSignal(signal): addSignal, its result dropped
RecordSignal(sig) ==
    /\ AddSignalEffect(sig)
    /\ lastOp' = "recordSignal"

SetMaxHistorySize(size) ==
    /\ maxSignals' = size
    /\ signals' = Truncated(signals, size)
    /\ lastOp' = "setMaxHistorySize"
    /\ answer' = NoAnswer
    /\ UNCHANGED <<now, minted, lastSignal, alertRules, lastAlerts, triggered, coordVars>>

\* addAlertRule(rule)
AddAlertRule(rule) ==
    /\ alertRules' = Append(alertRules, rule)
    /\ lastOp' = "addAlertRule"
    /\ answer' = NoAnswer
    /\ UNCHANGED <<now, minted, lastSignal, signals, maxSignals, lastAlerts, triggered,
                   coordVars>>

\* this.alertRules.find(r => r.id === ruleId): its place, 0 when there is none
FindRule(rules, ruleId) ==
    IF \E i \in 1..Len(rules) : rules[i].id = ruleId
    THEN CHOOSE i \in 1..Len(rules) :
             /\ rules[i].id = ruleId
             /\ \A j \in 1..(i - 1) : rules[j].id # ruleId
    ELSE 0

\* if (rule) rule.enabled = flag
SetEnabled(rules, ruleId, flag) ==
    LET i == FindRule(rules, ruleId)
    IN IF i = 0 THEN rules ELSE [rules EXCEPT ![i].enabled = flag]

\* enableAlert(ruleId)
EnableAlert(ruleId) ==
    /\ alertRules' = SetEnabled(alertRules, ruleId, TRUE)
    /\ lastOp' = "enableAlert"
    /\ answer' = NoAnswer
    /\ UNCHANGED <<now, minted, lastSignal, signals, maxSignals, lastAlerts, triggered,
                   coordVars>>

\* disableAlert(ruleId)
DisableAlert(ruleId) ==
    /\ alertRules' = SetEnabled(alertRules, ruleId, FALSE)
    /\ lastOp' = "disableAlert"
    /\ answer' = NoAnswer
    /\ UNCHANGED <<now, minted, lastSignal, signals, maxSignals, lastAlerts, triggered,
                   coordVars>>

\* this.alertRules.filter(rule => rule.enabled)
ActiveAlerts(rules) == SelectSeq(rules, LAMBDA rule : rule.enabled)

GetActiveAlerts ==
    /\ answer' = [op |-> "getActiveAlerts", at |-> now, value |-> ActiveAlerts(alertRules)]
    /\ lastOp' = "getActiveAlerts"
    /\ UNCHANGED <<now, minted, lastSignal, signals, maxSignals, alertRules, lastAlerts,
                   triggered, coordVars>>

\* delete this.lastAlerts[ruleId]
DeleteLastAlert(last, id) == [k \in DOMAIN last \ {id} |-> last[k]]

\* removeAlertRule(ruleId)
RemoveAlertRule(ruleId) ==
    /\ alertRules' = SelectSeq(alertRules, LAMBDA rule : rule.id # ruleId)
    /\ lastAlerts' = DeleteLastAlert(lastAlerts, ruleId)
    /\ lastOp' = "removeAlertRule"
    /\ answer' = NoAnswer
    /\ UNCHANGED <<now, minted, lastSignal, signals, maxSignals, triggered, coordVars>>

\* variant: splice(-limit) where the code has slice(-limit); splice takes the
\* signals it returns out of the history
GetRecentSignalsSplice(limit) ==
    /\ answer' = [op |-> "getRecentSignals", limit |-> limit,
                  value |-> SliceLast(signals, IF limit = {} THEN DefaultRecentLimit
                                               ELSE CHOOSE l \in limit : TRUE)]
    /\ signals' = SubSeq(signals, 1, Len(signals) - Len(answer'.value))
    /\ lastOp' = "getRecentSignals"
    /\ UNCHANGED <<now, minted, lastSignal, maxSignals, alertRules, lastAlerts,
                   triggered, coordVars>>

\* getRecentSignals(limit = 50): this.signals.slice(-limit)
RecentLimit(limit) == IF limit = {} THEN DefaultRecentLimit ELSE CHOOSE l \in limit : TRUE

GetRecentSignals(limit) ==
    /\ answer' = [op |-> "getRecentSignals", limit |-> limit,
                  value |-> SliceLast(signals, RecentLimit(limit))]
    /\ lastOp' = "getRecentSignals"
    /\ UNCHANGED <<now, minted, lastSignal, signals, maxSignals, alertRules, lastAlerts,
                   triggered, coordVars>>

\* timeWindow || 24 * 60 * 60 * 1000
WindowMs(timeWindow) ==
    IF timeWindow = {} \/ timeWindow = {0} THEN DayMs ELSE CHOOSE w \in timeWindow : TRUE

\* relevantSignals of getMetrics: the filter (now - signalTime) <= windowMs, read
\* at clock value t; a missing timestamp gives NaN, and the comparison is false
WindowSignals(hist, timeWindow, t) ==
    SelectSeq(hist, LAMBDA s : /\ s.timestamp # {}
                               /\ \A ts \in s.timestamp : (t - ts) <= WindowMs(timeWindow))

\* signal.agent || signal.source
AgentOf(s) ==
    IF s.agent = {} \/ s.agent = {""} THEN s.source ELSE CHOOSE a \in s.agent : TRUE

\* names a `{}` literal inherits from Object.prototype, for the names the runs
\* use: reading them on an object that has no such property of its own gives
\* the inherited function
InheritedNames == {"constructor", "toString"}

\* what a counter holds after `(function || 0) + 1`: a string, not a number
NotACount == -1

\* map[key] = (map[key] || 0) + 1
Bump(map, key) ==
    LET read == IF key \in DOMAIN map THEN map[key]
                ELSE IF key \in InheritedNames THEN NotACount
                ELSE 0
    IN [k \in DOMAIN map \cup {key} |->
           IF k = key THEN (IF read = NotACount THEN NotACount ELSE read + 1)
           ELSE map[k]]

\* variant: > where the code has >= at both limits
BucketStrict(c) == IF c > 80 THEN "high" ELSE IF c > 70 THEN "medium" ELSE "low"

\* the if / else if / else that picks the bucket of a confidence
Bucket(c) == IF c >= 80 THEN "high" ELSE IF c >= 70 THEN "medium" ELSE "low"

\* agentMetrics after one signal of the agent: count++ for every signal, and
\* for a scored one averageConfidence = (averageConfidence * (count - 1) + c) / count,
\* kept as a fraction
TrackAgent(metrics, agent, scored, c) ==
    \* `!agentMetrics[agent]` is false for an inherited name: no entry is made,
    \* and count++ goes to the inherited function
    IF agent \in InheritedNames THEN metrics ELSE
    LET old == IF agent \in DOMAIN metrics THEN metrics[agent]
               ELSE [count |-> 0, averageConfidence |-> [num |-> 0, den |-> 1]]
        count == old.count + 1
        average == IF scored
                   THEN [num |-> old.averageConfidence.num * (count - 1)
                                    + c * old.averageConfidence.den,
                         den |-> old.averageConfidence.den * count]
                   ELSE old.averageConfidence
    IN [x \in DOMAIN metrics \cup {agent} |->
           IF x = agent THEN [count |-> count, averageConfidence |-> average]
           ELSE metrics[x]]

\* signal.metadata?.pattern || signal.type
PatternOf(s) ==
    IF s.metadata.pattern = {} \/ s.metadata.pattern = {""} THEN s.type
    ELSE CHOOSE p \in s.metadata.pattern : TRUE

\* the `patterns` object as the list of its properties in the order they were
\* created, after one more signal of pattern p and confidence c (0 when unscored)
TrackPattern(patterns, p, c) ==
    \* `!patterns[pattern]` is false for an inherited name: no property is made
    IF p \in InheritedNames THEN patterns
    ELSE IF \E i \in 1..Len(patterns) : patterns[i].pattern = p
    THEN [i \in 1..Len(patterns) |->
             IF patterns[i].pattern = p
             THEN [pattern |-> p, count |-> patterns[i].count + 1,
                   totalConfidence |-> patterns[i].totalConfidence + c]
             ELSE patterns[i]]
    ELSE Append(patterns, [pattern |-> p, count |-> 1, totalConfidence |-> c])

\* the number a property name stands for when it is an array index ("7", "42"),
\* for the names the runs use
IndexOf(p) ==
    CASE p = "7" -> {7}
      [] p = "42" -> {42}
      [] OTHER -> {}

\* the entries of xs whose name is an array index, in ascending numeric order
RECURSIVE IndexEntries(_)
IndexEntries(xs) ==
    LET idx == {i \in 1..Len(xs) : IndexOf(xs[i].pattern) # {}}
    IN IF idx = {} THEN <<>>
       ELSE LET first == CHOOSE i \in idx :
                            \A j \in idx : \A a \in IndexOf(xs[i].pattern) :
                                \A b \in IndexOf(xs[j].pattern) : a <= b
            IN <<xs[first]>> \o
               IndexEntries(SelectSeq(xs, LAMBDA e : e.pattern # xs[first].pattern))

\* Object.entries(patterns): array-index names first, in ascending numeric
\* order, then the other names in creation order
ObjectEntries(patterns) ==
    IndexEntries(patterns) \o SelectSeq(patterns, LAMBDA e : IndexOf(e.pattern) = {})

\* Array.prototype.sort((a, b) => b.count - a.count), a stable sort: e goes
\* after every entry whose count is not smaller
RECURSIVE SortByCount(_, _)
SortByCount(xs, n) ==
    IF n = 0 THEN <<>>
    ELSE LET sorted == SortByCount(xs, n - 1)
             e == xs[n]
             ahead == SelectSeq(sorted, LAMBDA x : x.count >= e.count)
             behind == SelectSeq(sorted, LAMBDA x : x.count < e.count)
         IN ahead \o <<e>> \o behind

\* topPatterns: entries mapped, sorted by count, the first 10 kept
TopPatterns(patterns) ==
    LET entries == ObjectEntries(patterns)
        sorted == SortByCount(entries, Len(entries))
        kept == SubSeq(sorted, 1, Min(TopLimit, Len(sorted)))
    IN [i \in 1..Len(kept) |->
           [pattern |-> kept[i].pattern, count |-> kept[i].count,
            confidence |-> IF kept[i].count > 0
                           THEN [num |-> kept[i].totalConfidence, den |-> kept[i].count]
                           ELSE [num |-> 0, den |-> 1]]]

\* the accumulators of getMetrics before the forEach
EmptyTally ==
    [signalsByType |-> <<>>, signalsByAgent |-> <<>>, signalsBySource |-> <<>>,
     totalConfidence |-> 0, confidenceCount |-> 0,
     confidenceDistribution |-> [low |-> 0, medium |-> 0, high |-> 0],
     agentMetrics |-> <<>>,
     patterns |-> <<>>]

\* the accumulators after the forEach has visited the first n relevant signals
RECURSIVE Tally(_, _)
Tally(sigs, n) ==
    IF n = 0 THEN EmptyTally
    ELSE LET acc == Tally(sigs, n - 1)
             s == sigs[n]
             scored == s.confidence # {}
             c == IF scored THEN CHOOSE v \in s.confidence : TRUE ELSE 0
         IN [signalsByType |-> Bump(acc.signalsByType, s.type),
             signalsByAgent |-> Bump(acc.signalsByAgent, AgentOf(s)),
             signalsBySource |-> Bump(acc.signalsBySource, s.source),
             totalConfidence |-> acc.totalConfidence + c,
             confidenceCount |-> acc.confidenceCount + (IF scored THEN 1 ELSE 0),
             confidenceDistribution |->
                 IF scored
                 THEN [acc.confidenceDistribution EXCEPT ![Bucket(c)] = @ + 1]
                 ELSE acc.confidenceDistribution,
             agentMetrics |-> TrackAgent(acc.agentMetrics, AgentOf(s), scored, c),
             patterns |-> TrackPattern(acc.patterns, PatternOf(s), c)]

\* variant: the division without its guard
AverageConfidenceUnguarded(total, count) == [num |-> total, den |-> count]

\* confidenceCount > 0 ? totalConfidence / confidenceCount : 0, as a fraction
AverageConfidence(total, count) ==
    IF count > 0 THEN [num |-> total, den |-> count] ELSE [num |-> 0, den |-> 1]

\* relevantSignals[0]?.timestamp || now and
\* relevantSignals[relevantSignals.length - 1]?.timestamp || now
TimeRange(relevantSignals, t) ==
    LET StampOf(s) == CHOOSE ts \in s.timestamp : TRUE
    IN IF Len(relevantSignals) = 0 THEN [start |-> t, end |-> t]
       ELSE [start |-> StampOf(relevantSignals[1]),
             end |-> StampOf(relevantSignals[Len(relevantSignals)])]

\* the snapshot getMetrics(timeWindow) returns when it reads the clock at t:
\* its counts, its average and its confidence distribution
MetricsOf(hist, timeWindow, t) ==
    LET relevantSignals == WindowSignals(hist, timeWindow, t)
        tally == Tally(relevantSignals, Len(relevantSignals))
    IN [totalSignals |-> Len(relevantSignals),
        signalsByType |-> tally.signalsByType,
        signalsByAgent |-> tally.signalsByAgent,
        signalsBySource |-> tally.signalsBySource,
        averageConfidence |-> AverageConfidence(tally.totalConfidence,
                                                tally.confidenceCount),
        confidenceDistribution |-> tally.confidenceDistribution,
        agentMetrics |-> tally.agentMetrics,
        timeRange |-> TimeRange(relevantSignals, t),
        topPatterns |-> TopPatterns(tally.patterns)]

GetMetrics(timeWindow) ==
    /\ answer' = [op |-> "getMetrics", timeWindow |-> timeWindow, at |-> now,
                  value |-> MetricsOf(signals, timeWindow, now)]
    /\ lastOp' = "getMetrics"
    /\ UNCHANGED <<now, minted, lastSignal, signals, maxSignals, alertRules, lastAlerts,
                   triggered, coordVars>>

\* hours = 24 when the caller passes none
TrendHours(hours) == IF hours = {} THEN DefaultTrendHours ELSE CHOOSE h \in hours : TRUE

\* the bucket getSignalTrends pushes for loop index i, the clock read at t:
\* the signals with hourStart <= signalTime < hourEnd (a missing timestamp is
\* NaN and in no bucket), their number and their mean confidence
TrendBucket(hist, i, t) ==
    LET hourStart == t - (i + 1) * HourMs
        hourEnd == t - i * HourMs
        hourSignals == SelectSeq(hist, LAMBDA s :
                           \E ts \in s.timestamp : ts >= hourStart /\ ts < hourEnd)
    IN [hour |-> hourStart,
        count |-> Len(hourSignals),
        avgConfidence |-> IF Len(hourSignals) > 0
                          THEN [num |-> SumConfidence(hourSignals),
                                den |-> Len(hourSignals)]
                          ELSE [num |-> 0, den |-> 1]]

\* the trends array: i runs from hours - 1 down to 0
SignalTrends(hist, hours, t) ==
    [k \in 1..TrendHours(hours) |-> TrendBucket(hist, TrendHours(hours) - k, t)]

GetSignalTrends(hours) ==
    /\ answer' = [op |-> "getSignalTrends", hours |-> hours, at |-> now,
                  value |-> SignalTrends(signals, hours, now)]
    /\ lastOp' = "getSignalTrends"
    /\ UNCHANGED <<now, minted, lastSignal, signals, maxSignals, alertRules, lastAlerts,
                   triggered, coordVars>>

\* exportMetrics(format = 'object'): getMetrics() with a timestamp, as an object
\* or as its JSON text, or the CSV lines of four of its values
ExportMetrics(format) ==
    LET metrics == MetricsOf(signals, {}, now)
    IN /\ answer' = [op |-> "exportMetrics", format |-> format, at |-> now,
                     value |-> IF format \in {"object", "json"}
                               THEN [metrics |-> metrics, timestamp |-> now]
                               ELSE [total_signals |-> metrics.totalSignals,
                                     average_confidence |-> metrics.averageConfidence,
                                     signal_type |-> metrics.signalsByType,
                                     agent |-> metrics.signalsByAgent]]
       /\ lastOp' = "exportMetrics"
       /\ UNCHANGED <<now, minted, lastSignal, signals, maxSignals, alertRules,
                      lastAlerts, triggered, coordVars>>

\* variant: only the history is emptied, the last-fired times are kept
ResetHistoryOnly ==
    /\ signals' = <<>>
    /\ lastOp' = "reset"
    /\ answer' = NoAnswer
    /\ UNCHANGED <<now, minted, lastSignal, maxSignals, alertRules, lastAlerts, triggered,
                   coordVars>>

\* reset()
Reset ==
    /\ signals' = <<>>
    /\ lastAlerts' = <<>>
    /\ lastOp' = "reset"
    /\ answer' = NoAnswer
    /\ UNCHANGED <<now, minted, lastSignal, maxSignals, alertRules, triggered, coordVars>>

(***************************************************************************)
(* Construction                                                            *)
(***************************************************************************)
InitAnalytics ==
    /\ signals = <<>>
    /\ maxSignals = DefaultMaxSignals
    /\ alertRules = DefaultAlertRules
    /\ lastAlerts = <<>>
    /\ triggered = <<>>
    /\ answer = NoAnswer

InitCoordinator(options) ==
    /\ now = T0
    /\ minted = 0
    /\ lastOp = "new"
    /\ lastSignal = NoSignal
    /\ signalBuffer = <<>>
    /\ \E opt \in options : bufferSize = ConstructBufferSize(opt)
    /\ correlationRules = BuiltinRules
    /\ results = <<>>
    /\ returned = <<>>
    /\ evalLog = <<>>
    /\ thrown = {}

(***************************************************************************)
(* Correlation runs: a coordinator of default capacity, time passing       *)
(* between its calls                                                       *)
(***************************************************************************)
CoordinatorCalls == minted + Len(correlationRules) - Len(BuiltinRules)

Init == InitCoordinator({{}}) /\ InitAnalytics

\* every call reads one clock value throughout (k = 0)
Next ==
    \/ /\ CoordinatorCalls < MaxCalls
       /\ \E sig \in RegisterInputs : RegisterSignal(sig, 0, now)
    \/ /\ CoordinatorCalls < MaxCalls
       /\ \E sig \in ProcessInputs : ProcessSignal(sig, 0, now)
    \/ /\ CoordinatorCalls < MaxCalls
       /\ \E rule \in CustomRules : AddCorrelationRule(rule)
    \/ Tick

Spec == Init /\ [][Next]_vars

(***************************************************************************)
(* Capacity runs: coordinators of every small capacity, and the default    *)
(***************************************************************************)
HistoryRegisterInputs == [agent : {"A"}, type : {CexFunding, RapidDeployment},
                          confidence : {90}]

HistoryProcessInputs == [type : {RapidDeployment}, source : {"B"},
                         confidence : {{}}, timestamp : {T0}]

\* new AgentCoordinator() and new AgentCoordinator({ maxBufferSize: c })
CapacityOptions == {{}} \cup {{c} : c \in 0..MaxCapacity}

InitHistory == InitCoordinator(CapacityOptions) /\ InitAnalytics

NextHistory ==
    \/ /\ minted < MaxHistoryCalls
       /\ \E sig \in HistoryRegisterInputs : RegisterSignal(sig, 0, now)
    \/ /\ minted < MaxHistoryCalls
       /\ \E sig \in HistoryProcessInputs : ProcessSignal(sig, 0, now)

SpecHistory == InitHistory /\ [][NextHistory]_vars

(***************************************************************************)
(* Analytics runs                                                          *)
(***************************************************************************)
AnalyticsInputs(t) ==
    [type : {"launch_detected", RapidDeployment}, source : {"A"}, agent : {{}},
     confidence : {{}, {95}}, timestamp : {{t}},
     metadata : {[NoMetadata EXCEPT !.deploysPerMinute = {6}]}]

NextAnalytics ==
    \/ /\ minted < MaxAnalyticsCalls
       /\ \E sig \in AnalyticsInputs(now) : AddSignal(sig)
    \/ /\ minted < MaxAnalyticsCalls
       /\ \E sig \in AnalyticsInputs(now) : RecordSignal(sig)
    \/ \E size \in 0..MaxCapacity : SetMaxHistorySize(size)
    \/ Tick

SpecAnalytics == Init /\ [][NextAnalytics]_vars

(***************************************************************************)
(* Validation runs: callers that hand over malformed signals               *)
(***************************************************************************)
IntakeRegisterInputs == [agent : {"", "test_agent"}, type : {"", "test_signal"},
                         confidence : {-100, 80, 150}]

IntakeAnalyticsInputs ==
    [type : {"", "TEST_SIGNAL"}, source : {"", "test"}, agent : {{}},
     confidence : {{-100}, {50}, {200}}, timestamp : {{T0}}, metadata : {NoMetadata}]

NextIntake ==
    \/ /\ minted < MaxIntakeCalls
       /\ \E sig \in IntakeRegisterInputs : RegisterSignal(sig, 0, now)
    \/ /\ minted < MaxIntakeCalls
       /\ \E sig \in IntakeAnalyticsInputs : AddSignal(sig)

SpecIntake == Init /\ [][NextIntake]_vars

(***************************************************************************)
(* Rule registration runs: callers that hand over rules of every shape,    *)
(* and rules whose id is already taken                                     *)
(***************************************************************************)
\* rules with no required kind, and with a window below zero under the id of
\* a built-in rule
OddRules == {
    [id |-> "no_kinds", requiredSignals |-> <<>>,
     timeWindow |-> 30000, minConfidence |-> 0, outputPattern |-> "always"],
    [id |-> "cex_rapid_deploy", requiredSignals |-> <<CexFunding>>,
     timeWindow |-> -1000, minConfidence |-> 50, outputPattern |-> "reused"] }

\* alert rules a caller registers: a default rule handed over again as it is,
\* the same id with its cooldown changed to 0, and a rule of the tests
OfferedAlertRules == {
    [id |-> "high_confidence_launch", condition |-> "high_confidence_launch",
     priority |-> "high", cooldown |-> 30000, enabled |-> TRUE],
    [id |-> "high_confidence_launch", condition |-> "high_confidence_launch",
     priority |-> "high", cooldown |-> 0, enabled |-> TRUE],
    [id |-> "rule2", condition |-> "rule2",
     priority |-> "medium", cooldown |-> 0, enabled |-> TRUE] }

RuleCalls ==
    minted + (Len(correlationRules) - Len(BuiltinRules))
           + (Len(alertRules) - Len(DefaultAlertRules))

NextRules ==
    \/ /\ RuleCalls < MaxRuleCalls
       /\ \E rule \in CustomRules \cup OddRules : AddCorrelationRule(rule)
    \/ /\ RuleCalls < MaxRuleCalls
       /\ \E rule \in OfferedAlertRules : AddAlertRule(rule)
    \/ /\ RuleCalls < MaxRuleCalls
       /\ \E sig \in ProcessInputs : ProcessSignal(sig, 0, now)

SpecRules == Init /\ [][NextRules]_vars

(***************************************************************************)
(* Alert runs: rules registered on top of the default ones, signals added, *)
(* time passing between the calls                                          *)
(***************************************************************************)
AlertInputs(t) ==
    [type : {"launch_detected", "TYPE_A"}, source : {"A", "B"}, agent : {{}},
     confidence : {{}, {95}}, timestamp : {{t}}, metadata : {NoMetadata}]

AlertCalls == minted + (Len(alertRules) - Len(DefaultAlertRules))

NextAlerts ==
    \/ /\ AlertCalls < MaxAlertCalls
       /\ \E rule \in OfferedAlertRules : AddAlertRule(rule)
    \/ /\ AlertCalls < MaxAlertCalls
       /\ \E sig \in AlertInputs(now) : AddSignal(sig)
    \/ Tick

SpecAlerts == Init /\ [][NextAlerts]_vars

(***************************************************************************)
(* Recent-signals runs: histories of every small maximum, read back with   *)
(* every small limit                                                       *)
(***************************************************************************)
RecentInputs(t) ==
    [type : {"launch_detected", RapidDeployment}, source : {"A"}, agent : {{}},
     confidence : {{95}}, timestamp : {{t}}, metadata : {NoMetadata}]

\* getRecentSignals() and getRecentSignals(l)
Limits == {{}} \cup {{l} : l \in 0..MaxLimit}

NextRecent ==
    \/ /\ minted < MaxRecentCalls
       /\ \E sig \in RecentInputs(now) : AddSignal(sig)
    \/ \E size \in 0..MaxCapacity : SetMaxHistorySize(size)
    \/ \E limit \in Limits : GetRecentSignals(limit)

SpecRecent == Init /\ [][NextRecent]_vars

(***************************************************************************)
(* Metrics runs: signals with the timestamps their producers gave them,    *)
(* snapshots taken over several windows as time passes                     *)
(***************************************************************************)
\* a producer stamps its signal T0 or T0 + 30001, whatever the engine's clock
MetricsInputs ==
    [type : {"launch_detected", RapidDeployment}, source : {"A"}, agent : {{}},
     confidence : {{}, {69}, {70}, {80}}, timestamp : {{T0}, {T0 + 30001}},
     metadata : {NoMetadata}]

\* getMetrics(), getMetrics(0), getMetrics(30000), getMetrics(60000)
Windows == {{}, {0}, {30000}, {60000}}

NextMetrics ==
    \/ /\ minted < MaxMetricsCalls
       /\ \E sig \in MetricsInputs : AddSignal(sig)
    \/ \E timeWindow \in Windows : GetMetrics(timeWindow)
    \/ Reset
    \/ Tick

SpecMetrics == Init /\ [][NextMetrics]_vars

(***************************************************************************)
(* Pattern runs: signals that name a pattern in their metadata, or none    *)
(***************************************************************************)
PatternInputs(t) ==
    [type : {"launch_detected"}, source : {"A"}, agent : {{}}, confidence : {{80}},
     timestamp : {{t}},
     metadata : {[NoMetadata EXCEPT !.pattern = p] : p \in {{}, {"wash"}, {"7"}, {"42"}}}]

NextPatterns ==
    \/ /\ minted < MaxPatternCalls
       /\ \E sig \in PatternInputs(now) : AddSignal(sig)
    \/ GetMetrics({})

SpecPatterns == Init /\ [][NextPatterns]_vars

(***************************************************************************)
(* Trend runs: signals stamped with the time of the call that adds them,   *)
(* or one or two hours before it                                           *)
(***************************************************************************)
TrendInputs(t) ==
    [type : {"trend_signal"}, source : {"TrendAgent"}, agent : {{}},
     confidence : {{}, {80}}, timestamp : {{t}, {t - HourMs}, {t - 2 * HourMs}},
     metadata : {NoMetadata}]

\* getSignalTrends() and getSignalTrends(h)
HourOptions == {{}} \cup {{h} : h \in 0..MaxHours}

NextTrends ==
    \/ /\ minted < MaxTrendCalls
       /\ \E sig \in TrendInputs(now) : AddSignal(sig)
    \/ \E hours \in HourOptions : GetSignalTrends(hours)
    \/ Tick

SpecTrends == Init /\ [][NextTrends]_vars

(***************************************************************************)
(* Query runs: both engines fed, then asked                                *)
(***************************************************************************)
\* the two signals of the threshold test, and a confident one
QueryRegisterInputs ==
    {[agent |-> "observer", type |-> CexFunding, confidence |-> 50],
     [agent |-> "harvester", type |-> RapidDeployment, confidence |-> 60],
     [agent |-> "harvester", type |-> RapidDeployment, confidence |-> 90]}

\* a signal whose producer stamped it T0 + 30001
QueryProcessInputs ==
    [type : {CexFunding}, source : {"B"}, confidence : {{90}}, timestamp : {T0 + 30001}]

QueryAnalyticsInputs(t) ==
    [type : {"launch_detected"}, source : {"A"}, agent : {{}}, confidence : {{95}},
     timestamp : {{t}}, metadata : {NoMetadata}]

\* the lists of types and the windows correlateSignals is asked about
QueryTypes == {<<CexFunding, RapidDeployment>>, <<CexFunding>>,
               <<"nonexistent_signal_type">>}
QueryWindows == {{}, {0}, {30000}}

QueryCalls == minted

QueryOps == {"getMetrics", "exportMetrics", "getSignalTrends", "getRecentSignals",
             "correlateSignals", "getActiveSignals", "getSignalStats"}

NextQueries ==
    \/ /\ QueryCalls < MaxQueryCalls
       /\ \E sig \in QueryRegisterInputs : RegisterSignal(sig, 0, now)
    \/ /\ QueryCalls < MaxQueryCalls
       /\ \E sig \in QueryProcessInputs : ProcessSignal(sig, 0, now)
    \/ /\ QueryCalls < MaxQueryCalls
       /\ \E sig \in QueryAnalyticsInputs(now) : AddSignal(sig)
    \/ \E types \in QueryTypes, timeWindow \in QueryWindows :
          CorrelateSignalsCall(types, timeWindow)
    \/ \E timeWindow \in QueryWindows : GetActiveSignals(timeWindow)
    \/ GetSignalStats
    \/ \E timeWindow \in QueryWindows : GetMetrics(timeWindow)
    \/ \E format \in {"object", "json", "csv"} : ExportMetrics(format)
    \/ \E hours \in {{}, {1}} : GetSignalTrends(hours)
    \/ \E limit \in {{}, {1}} : GetRecentSignals(limit)
    \/ Tick

SpecQueries == Init /\ [][NextQueries]_vars

(***************************************************************************)
(* Vocabulary of the properties: what the last run of checkCorrelations    *)
(* did, told from the buffer it ran on                                     *)
(***************************************************************************)
\* places in the buffer of the signals rule i collects: a required kind, and a
\* timestamp within the rule's window of the clock read that collected them
Collected(i) ==
    {j \in 1..Len(signalBuffer) :
        /\ \E q \in 1..Len(correlationRules[i].requiredSignals) :
              correlationRules[i].requiredSignals[q] = signalBuffer[j].type
        /\ evalLog[i].t2 - signalBuffer[j].timestamp <= correlationRules[i].timeWindow}

\* every required kind of rule i has a collected signal
Covered(i) ==
    \A q \in 1..Len(correlationRules[i].requiredSignals) :
        \E j \in Collected(i) :
            signalBuffer[j].type = correlationRules[i].requiredSignals[q]

Emitted(i) == evalLog[i].slot # 0

CompositeOf(i) == results[evalLog[i].slot]

\* total confidence, in hundredths, of the buffered signals at the places S,
\* a missing confidence counting 0
RECURSIVE TotalConfidence(_)
TotalConfidence(S) ==
    IF S = {} THEN 0
    ELSE LET j == CHOOSE x \in S : TRUE
             c == signalBuffer[j].confidence
         IN (IF c = {} THEN 0 ELSE CHOOSE v \in c : TRUE) + TotalConfidence(S \ {j})

Evaluated == 1..Len(evalLog)

(***************************************************************************)
(* C1  Coordinator history bound.  After any interleaving of               *)
(* registerSignal and processSignal on a coordinator of capacity C the     *)
(* buffer holds min(N, C) signals, N the number of insertions: they are    *)
(* the last ones inserted, in insertion order, the newest being the signal *)
(* of the last call.                                                       *)
(***************************************************************************)
C1_HistoryBound ==
    /\ Len(signalBuffer) <= bufferSize
    /\ Len(signalBuffer) = Min(minted, bufferSize)
    /\ \A i \in 1..Len(signalBuffer) :
          signalBuffer[i].hash = minted - Len(signalBuffer) + i
    /\ minted > 0 => signalBuffer[Len(signalBuffer)].type = lastSignal.type

\* more insertions than the capacity, made through both operations
C1_Witness ==
    /\ bufferSize = 2
    /\ minted = bufferSize + 2
    /\ lastOp = "processSignal"
    /\ signalBuffer[1].source = "A"

(***************************************************************************)
(* C2  Analytics history bound.  After any sequence of addSignal,          *)
(* recordSignal and setMaxHistorySize(size), size >= 0, the retained       *)
(* history holds no more signals than the configured maximum, and they are *)
(* the most recent ones in arrival order.                                  *)
(***************************************************************************)
C2_AnalyticsBound ==
    /\ Len(signals) <= maxSignals
    /\ \A i \in 1..Len(signals) : signals[i].hash = minted - Len(signals) + i

(***************************************************************************)
(* C3  A signal whose confidence lies outside [0,1] is rejected: the call  *)
(* that hands it over leaves the coordinator's buffer and the analytics    *)
(* history as they were.                                                   *)
(***************************************************************************)
OutOfRange(conf) == \E c \in conf : c < 0 \/ c > 100

C3_RejectsOutOfRange ==
    [][(minted' = minted + 1 /\ OutOfRange(lastSignal'.confidence))
          => (signalBuffer' = signalBuffer /\ signals' = signals)]_vars

(***************************************************************************)
(* C4  A signal with an empty kind or an empty source never enters the     *)
(* buffer.                                                                 *)
(***************************************************************************)
C4_RejectsEmpty ==
    \A j \in 1..Len(signalBuffer) :
        signalBuffer[j].type # "" /\ signalBuffer[j].source # ""

C6_SetCoverage ==
    \A i \in Evaluated :
        (\E q \in 1..Len(correlationRules[i].requiredSignals) :
            \A j \in 1..Len(signalBuffer) :
                signalBuffer[j].type # correlationRules[i].requiredSignals[q])
        => ~ Emitted(i)

\* three confident signals of one kind of the two-kind built-in rule, none of
\* the other
C6_Witness ==
    /\ Len(evalLog) >= 1
    /\ Len(signalBuffer) = 3
    /\ \A j \in 1..Len(signalBuffer) :
          signalBuffer[j].type = CexFunding /\ signalBuffer[j].confidence \in {{90}, {100}}
    /\ ~ Emitted(1)

(***************************************************************************)
(* C7  Window separation.  A rule with two required kinds emits no         *)
(* composite when every buffered signal of the one kind is more than the   *)
(* rule's window apart from every buffered signal of the other.            *)
(***************************************************************************)
Apart(a, b) == IF a >= b THEN a - b ELSE b - a

C7_WindowSeparation ==
    \A i \in Evaluated :
        LET rule == correlationRules[i]
        IN (/\ Len(rule.requiredSignals) = 2
            /\ rule.requiredSignals[1] # rule.requiredSignals[2]
            /\ \A a, b \in 1..Len(signalBuffer) :
                  (signalBuffer[a].type = rule.requiredSignals[1]
                   /\ signalBuffer[b].type = rule.requiredSignals[2])
                  => Apart(signalBuffer[a].timestamp, signalBuffer[b].timestamp)
                        > rule.timeWindow)
           => ~ Emitted(i)

C10_ContributingSources ==
    \A i \in Evaluated :
        Emitted(i) =>
            LET agents == CompositeOf(i).contributingAgents
            IN /\ Range(agents) = {signalBuffer[j].source : j \in Collected(i)}
               /\ \A x, y \in 1..Len(agents) : agents[x] = agents[y] => x = y

\* a composite from three collected signals of two sources
C10_Witness ==
    \E i \in Evaluated :
        /\ Emitted(i)
        /\ Cardinality(Collected(i)) = 3
        /\ CompositeOf(i).contributingAgents = <<"A", "B">>

(***************************************************************************)
(* C11  First-match return.  When several rules emit a composite in one    *)
(* processSignal call, the call returns the composite of the emitting rule *)
(* that comes first in registration order, the built-in rules first; when  *)
(* no rule emits, it returns null.                                         *)
(***************************************************************************)
C11_FirstMatch ==
    lastOp = "processSignal" =>
        LET emitting == {i \in Evaluated : Emitted(i)}
        IN /\ emitting = {} => returned = <<>>
           /\ emitting # {} =>
                 LET first == CHOOSE i \in emitting : \A j \in emitting : i <= j
                 IN /\ Len(returned) = 1
                    /\ returned[1] = CompositeOf(first)
                    /\ returned[1].ruleId = correlationRules[first].id
                    /\ returned[1].type = correlationRules[first].outputPattern

\* a processSignal call in which a built-in rule and a registered rule of
\* another id both emitted
C11_Witness ==
    /\ lastOp = "processSignal"
    /\ \E i, j \in Evaluated :
          /\ i < j /\ Emitted(i) /\ Emitted(j)
          /\ correlationRules[i].id # correlationRules[j].id
          /\ Len(returned) = 1

(***************************************************************************)
(* C12  A malformed correlation rule, one with no required kind or with a  *)
(* window that is not positive, is rejected by addCorrelationRule: it is   *)
(* never in the rule list, so no processSignal call evaluates it.          *)
(***************************************************************************)
Malformed(rule) == Len(rule.requiredSignals) = 0 \/ rule.timeWindow <= 0

C12_RejectsMalformed ==
    /\ \A i \in 1..Len(correlationRules) : ~ Malformed(correlationRules[i])
    /\ \A i \in Evaluated : ~ Malformed(correlationRules[i])

(***************************************************************************)
(* C13  Alert cooldown.  When an addSignal call returned an alert of an    *)
(* enabled rule with cooldown c and the next addSignal call hands over a   *)
(* signal that satisfies the rule's predicate too, the next call returns   *)
(* no alert of that rule if it is made less than c after the first, and    *)
(* returns one if it is made at least c after it.                          *)
(***************************************************************************)
C13_Cooldown ==
    [][(lastOp = "addSignal" /\ lastOp' = "addSignal" /\ minted' = minted + 1) =>
        \A i \in 1..Len(alertRules) : \A k \in 1..Len(triggered) :
            LET rule == alertRules[i]
                alert == triggered[k]
                again == {j \in 1..Len(triggered') : triggered'[j].ruleId = rule.id}
            IN (/\ rule.enabled
                /\ alert.ruleId = rule.id
                /\ Condition(rule.condition, alert.signal)
                /\ Condition(rule.condition, signals'[Len(signals')]))
               => /\ now - alert.triggeredAt < rule.cooldown => again = {}
                  /\ now - alert.triggeredAt >= rule.cooldown => again # {}]_vars

(***************************************************************************)
(* C14  One addSignal call returns one alert for every enabled rule that   *)
(* is out of cooldown when the call is made and whose predicate holds for  *)
(* the signal: all of them, each once, in rule registration order.         *)
(***************************************************************************)
C14_AllAlerts ==
    [][(lastOp' = "addSignal" /\ minted' = minted + 1) =>
        LET s == signals'[Len(signals')]
            due == SelectSeq(alertRules,
                             LAMBDA r : /\ r.enabled
                                        /\ \/ r.id \notin DOMAIN lastAlerts
                                           \/ now - lastAlerts[r.id] >= r.cooldown
                                        /\ Condition(r.condition, s))
        IN /\ Len(triggered') = Len(due)
           /\ \A j \in 1..Len(due) :
                 /\ triggered'[j].ruleId = due[j].id
                 /\ triggered'[j].priority = due[j].priority
                 /\ triggered'[j].signal = s]_vars

(***************************************************************************)
(* C15  Rule ids are unique within an engine: whatever rules were handed   *)
(* to addAlertRule and addCorrelationRule, no two alert rules of the       *)
(* analytics engine share an id, and no two correlation rules of the       *)
(* coordinator do.                                                         *)
(***************************************************************************)
C15_UniqueIds ==
    /\ \A i, j \in 1..Len(alertRules) :
          alertRules[i].id = alertRules[j].id => i = j
    /\ \A i, j \in 1..Len(correlationRules) :
          correlationRules[i].id = correlationRules[j].id => i = j

(***************************************************************************)
(* C16  As claimed: in every reachable state, getRecentSignals(1) called   *)
(* right after addSignal returns a one-element sequence holding the signal *)
(* just added.                                                             *)
(***************************************************************************)
RecentIsAdded ==
    /\ Len(answer'.value) = 1
    /\ answer'.value[1].hash = minted
    /\ answer'.value[1].type = lastSignal.type
    /\ answer'.value[1].confidence = lastSignal.confidence
    /\ answer'.value[1].timestamp = lastSignal.timestamp

RecentOfOneAfterAdd ==
    /\ lastOp = "addSignal"
    /\ lastOp' = "getRecentSignals"
    /\ answer'.limit = {1}

C16_RecentIsAdded ==
    [][RecentOfOneAfterAdd => RecentIsAdded]_vars

(***************************************************************************)
(* C16, amended: getRecentSignals(1) called right after addSignal returns  *)
(* a one-element sequence holding the signal just added whenever the       *)
(* configured maximum is at least 1; with a maximum of 0 and nothing       *)
(* retained, the signal is evicted by the call that added it and the       *)
(* query returns the empty sequence.                                       *)
(***************************************************************************)
C16_RecentIsAddedWithinMaximum ==
    [][RecentOfOneAfterAdd =>
          /\ maxSignals >= 1 => RecentIsAdded
          /\ (maxSignals = 0 /\ signals = <<>>) => answer'.value = <<>>]_vars

\* getRecentSignals(1) answered with the signal just added, after that signal
\* evicted an older one from a history of maximum 1
C16_Witness ==
    /\ lastOp = "getRecentSignals"
    /\ answer.limit = {1}
    /\ maxSignals = 1
    /\ minted >= 2
    /\ Len(answer.value) = 1
    /\ answer.value[1].hash = minted

(***************************************************************************)
(* C17  getRecentSignals(limit) returns the most recent min(limit, n)      *)
(* signals of an n-signal history, in arrival order, for every limit >= 0: *)
(* never more than limit signals, and none for limit = 0.                  *)
(***************************************************************************)
C17_MostRecentLimit ==
    answer.op = "getRecentSignals" =>
        LET limit == RecentLimit(answer.limit)
            n == Len(signals)
            k == Min(limit, n)
        IN /\ Len(answer.value) <= limit
           /\ answer.value = SubSeq(signals, n - k + 1, n)

(***************************************************************************)
(* C18  getMetrics on an empty history, of a fresh engine or after reset,  *)
(* returns totalSignals = 0 and averageConfidence = 0 with no division by  *)
(* zero, and every count map is empty.                                     *)
(***************************************************************************)
C18_EmptySnapshot ==
    (answer.op = "getMetrics" /\ signals = <<>>) =>
        /\ answer.value.totalSignals = 0
        /\ answer.value.averageConfidence.den # 0
        /\ answer.value.averageConfidence.num = 0
        /\ DOMAIN answer.value.signalsByType = {}
        /\ DOMAIN answer.value.signalsByAgent = {}
        /\ DOMAIN answer.value.signalsBySource = {}
        /\ answer.value.confidenceDistribution = [low |-> 0, medium |-> 0, high |-> 0]

\* a snapshot taken after reset emptied a history that held signals
C18_Witness ==
    /\ lastOp = "getMetrics"
    /\ answer.op = "getMetrics"
    /\ signals = <<>>
    /\ minted = 2
    /\ answer.value.totalSignals = 0

(***************************************************************************)
(* C19  getMetrics(window) counts exactly the retained signals whose       *)
(* timestamp lies in [now - window, now]: a signal older than now - window *)
(* and a signal stamped later than now are both left out of totalSignals   *)
(* and of every count.                                                     *)
(***************************************************************************)
C19_WindowCounts ==
    (answer.op = "getMetrics" /\ answer.timeWindow # {}) =>
        LET window == CHOOSE w \in answer.timeWindow : TRUE
            inWindow == {i \in 1..Len(signals) :
                            \E ts \in signals[i].timestamp :
                                answer.at - window <= ts /\ ts <= answer.at}
            CountOf(map, key) == IF key \in DOMAIN map THEN map[key] ELSE 0
        IN /\ answer.value.totalSignals = Cardinality(inWindow)
           /\ \A type \in {signals[i].type : i \in 1..Len(signals)} :
                 CountOf(answer.value.signalsByType, type)
                     = Cardinality({i \in inWindow : signals[i].type = type})
           /\ \A source \in {signals[i].source : i \in 1..Len(signals)} :
                 CountOf(answer.value.signalsBySource, source)
                     = Cardinality({i \in inWindow : signals[i].source = source})

(***************************************************************************)
(* C20  Confidence distribution.  Each signal a snapshot covers that       *)
(* carries a confidence c is counted in exactly one bucket: low if         *)
(* c < 0.7, medium if 0.7 <= c < 0.8, high if c >= 0.8; so 0.8 exactly is  *)
(* high and 0.7 exactly is medium.                                         *)
(***************************************************************************)
CoveredBySnapshot ==
    {i \in 1..Len(signals) :
        \E ts \in signals[i].timestamp :
            answer.at - ts <= WindowMs(answer.timeWindow)}

RECURSIVE HistoryConfidence(_)
HistoryConfidence(S) ==
    IF S = {} THEN 0
    ELSE LET j == CHOOSE x \in S : TRUE
         IN OrZero(signals[j].confidence) + HistoryConfidence(S \ {j})

C21_AgentMetrics ==
    answer.op = "getMetrics" =>
        LET covered == CoveredBySnapshot
            agents == {AgentOf(signals[i]) : i \in covered}
            metrics == answer.value.agentMetrics
        IN /\ DOMAIN metrics = agents
           /\ \A agent \in agents :
                 LET mine == {i \in covered : AgentOf(signals[i]) = agent}
                     scored == {i \in mine : signals[i].confidence # {}}
                     average == metrics[agent].averageConfidence
                 IN /\ metrics[agent].count = Cardinality(mine)
                    /\ average.den > 0
                    /\ scored # {} =>
                          average.num * Cardinality(scored)
                              = average.den * HistoryConfidence(scored)

(***************************************************************************)
(* C22  timeRange of a snapshot: start is the timestamp of the earliest    *)
(* signal the snapshot covers and end that of the latest one, also when    *)
(* the signals were added with timestamps out of order; both are the       *)
(* current time when the snapshot covers no signal.                        *)
(***************************************************************************)
C22_TimeRange ==
    answer.op = "getMetrics" =>
        LET stamps == UNION {signals[i].timestamp : i \in CoveredBySnapshot}
            range == answer.value.timeRange
        IN /\ stamps = {} => (range.start = answer.at /\ range.end = answer.at)
           /\ stamps # {} =>
                 /\ range.start \in stamps /\ \A ts \in stamps : range.start <= ts
                 /\ range.end \in stamps /\ \A ts \in stamps : ts <= range.end

(***************************************************************************)
(* C23  topPatterns lists at most 10 entries, grouped by metadata.pattern  *)
(* when present and by kind otherwise, ordered by count descending, ties   *)
(* broken by the order in which each pattern first occurred, for every     *)
(* pattern or kind string, also one that looks like an integer.            *)
(***************************************************************************)
C23_TopPatterns ==
    answer.op = "getMetrics" =>
        LET covered == CoveredBySnapshot
            top == answer.value.topPatterns
            names == {PatternOf(signals[i]) : i \in covered}
            FirstOf(p) == CHOOSE i \in covered :
                              /\ PatternOf(signals[i]) = p
                              /\ \A j \in covered : PatternOf(signals[j]) = p => i <= j
        IN /\ Len(top) = Min(TopLimit, Cardinality(names))
           /\ \A x \in 1..Len(top) :
                 /\ top[x].pattern \in names
                 /\ top[x].count
                       = Cardinality({i \in covered : PatternOf(signals[i]) = top[x].pattern})
           /\ \A x, y \in 1..Len(top) :
                 x < y =>
                    \/ top[x].count > top[y].count
                    \/ /\ top[x].count = top[y].count
                       /\ FirstOf(top[x].pattern) < FirstOf(top[y].pattern)

(***************************************************************************)
(* C24  getSignalTrends(hours) returns exactly `hours` contiguous one-hour *)
(* buckets ending at now, oldest first, over the whole retained history:   *)
(* every retained signal stamped in [now - hours * 1h, now] is counted in  *)
(* exactly one bucket, and a bucket with no signal reports count 0 and     *)
(* confidence 0.                                                           *)
(***************************************************************************)
RECURSIVE CountedIn(_, _)
CountedIn(trends, n) == IF n = 0 THEN 0 ELSE trends[n].count + CountedIn(trends, n - 1)

C24_TrendBuckets ==
    answer.op = "getSignalTrends" =>
        LET hours == TrendHours(answer.hours)
            trends == answer.value
            stamped == {i \in 1..Len(signals) :
                           \E ts \in signals[i].timestamp :
                               answer.at - hours * HourMs <= ts /\ ts <= answer.at}
        IN /\ Len(trends) = hours
           /\ \A k \in 1..Len(trends) :
                 /\ trends[k].hour = answer.at - (hours - k + 1) * HourMs
                 /\ trends[k].count = 0 => trends[k].avgConfidence.num = 0
                 /\ trends[k].avgConfidence.den > 0
           /\ CountedIn(trends, Len(trends)) = Cardinality(stamped)

(***************************************************************************)
(* C25  Query operations are read-only: getMetrics, exportMetrics,         *)
(* getSignalTrends and getRecentSignals of the analytics engine, and       *)
(* correlateSignals, getActiveSignals and getSignalStats of the            *)
(* coordinator, leave the histories, the rule lists and every rule's       *)
(* last-fired time as they were.                                           *)
(***************************************************************************)
C25_QueriesReadOnly ==
    [][lastOp' \in QueryOps =>
          /\ signals' = signals
          /\ signalBuffer' = signalBuffer
          /\ alertRules' = alertRules
          /\ correlationRules' = correlationRules
          /\ lastAlerts' = lastAlerts
          /\ maxSignals' = maxSignals
          /\ bufferSize' = bufferSize]_vars

\* a query has answered on engines that hold signals and a last-fired time
C25_Witness ==
    /\ lastOp \in QueryOps
    /\ answer.op = lastOp
    /\ Len(signals) > 0
    /\ Len(signalBuffer) > 0
    /\ DOMAIN lastAlerts # {}

(***************************************************************************)
(* Callback runs: a coordinator whose rules carry action callbacks         *)
(***************************************************************************)
CallbackRegisterInputs == [agent : {"A"}, type : {CexFunding, RapidDeployment},
                           confidence : {90}]

CallbackProcessInputs == [type : {CexFunding, RapidDeployment}, source : {"B"},
                          confidence : {{90}}, timestamp : {T0, T0 + 30001}]

\* calls made from outside: signals handed over by callbacks are not counted
CallbackCalls == Len(correlationRules) - Len(BuiltinRules)
                 + Cardinality({i \in 1..Len(signalBuffer) :
                                    signalBuffer[i].source # "callback"})

NextCallbacks ==
    \/ /\ CallbackCalls < MaxCallbackCalls
       /\ \E sig \in CallbackRegisterInputs : RegisterSignalCalling(sig)
    \/ /\ CallbackCalls < MaxCallbackCalls
       /\ \E sig \in CallbackProcessInputs : ProcessSignalCalling(sig)
    \/ /\ CallbackCalls < MaxCallbackCalls
       /\ \E rule \in CallbackRules : AddCorrelationRule(rule)
    \/ Tick

SpecCallbacks == Init /\ [][NextCallbacks]_vars

\* C26: every call of registerSignal or processSignal returns, having
\* evaluated each rule registered when it was called exactly once, in
\* registration order
C26_CallsComplete ==
    [][(lastOp' \in {"registerSignal", "processSignal"} /\ minted' > minted)
          => /\ thrown' = {}
             /\ Len(evalLog') = Len(correlationRules)
             /\ \A i \in 1..Len(evalLog') : evalLog'[i].rule = i]_vars

\* a signal of the given type stamped within `window` of clock value t
BufferedWithin(type, window, t) ==
    \E j \in 1..Len(signalBuffer) :
        /\ signalBuffer[j].type = type
        /\ signalBuffer[j].timestamp - t <= window
        /\ t - signalBuffer[j].timestamp <= window

\* C27: correlateSignals(types, window) returns true if and only if every
\* type in `types` has a buffered signal stamped within `window` of now
C27_CorrelateIff ==
    (answer.op = "correlateSignals" /\ answer.timeWindow # {})
        => (answer.value <=>
                \A i \in 1..Len(answer.signalTypes) :
                    BufferedWithin(answer.signalTypes[i], OrZero(answer.timeWindow),
                                   answer.at))

\* C28: correlateSignals returns false when the mean confidence of the
\* matching signals is below the minimum confidence of the rule with those
\* required types
C28_CorrelateThreshold ==
    answer.op = "correlateSignals"
        => \A r \in 1..Len(correlationRules) :
               (/\ correlationRules[r].requiredSignals = answer.signalTypes
                /\ ~MeetsThreshold(GetRelevantSignals(signalBuffer, answer.signalTypes,
                                                      OrZero(answer.timeWindow),
                                                      answer.at),
                                   correlationRules[r].minConfidence))
                   => answer.value = FALSE

(***************************************************************************)
(* Removal runs: alert rules added and removed, the enabled ones listed    *)
(***************************************************************************)
\* the rule of the removal test, which carries no `enabled` and is therefore
\* not listed by getActiveAlerts, next to the rules offered in the alert runs
RemovalRules ==
    OfferedAlertRules \cup
    {[id |-> "test-alert", condition |-> "rule2", priority |-> "low",
      cooldown |-> 0, enabled |-> FALSE]}

\* a signal that fires the rules offered
RemovalInputs(t) ==
    [type : {"launch_detected"}, source : {"A"}, agent : {{}}, confidence : {{95}},
     timestamp : {{t}}, metadata : {NoMetadata}]

RemovalIds == {rule.id : rule \in RemovalRules} \cup {"coordinated_pattern"}

NextRemoval ==
    \/ /\ Len(alertRules) < Len(DefaultAlertRules) + MaxRemovalRules
       /\ \E rule \in RemovalRules : AddAlertRule(rule)
    \/ \E ruleId \in RemovalIds : RemoveAlertRule(ruleId)
    \/ /\ minted < MaxRemovalSignals
       /\ \E sig \in RemovalInputs(now) : AddSignal(sig)
    \/ GetActiveAlerts

SpecRemoval == Init /\ [][NextRemoval]_vars

\* C29: for every alert rule r, addAlertRule(r) followed immediately by
\* removeAlertRule(r.id) leaves the enabled rules listed by getActiveAlerts
\* as they were before the add
C29_AddThenRemove ==
    [][(/\ lastOp = "addAlertRule"
        /\ RemoveAlertRule(alertRules[Len(alertRules)].id))
          => ActiveAlerts(alertRules')
               = ActiveAlerts(SubSeq(alertRules, 1, Len(alertRules) - 1))]_vars

\* some rule with the given id is enabled, out of its cooldown and satisfied
\* by signal s when a call starts
DueById(id, s) ==
    \E j \in 1..Len(alertRules) :
        /\ alertRules[j].id = id
        /\ alertRules[j].enabled
        /\ now - LastAlertOf(lastAlerts, id) >= alertRules[j].cooldown
        /\ Condition(alertRules[j].condition, s)

\* C30: once a rule has fired for a signal from one source, a signal from
\* another source that satisfies the rule's predicate within the cooldown
\* produces no alert for that rule, and the rules with a different id fire
\* as if it had not
C30_CooldownById ==
    [][(lastOp = "addSignal" /\ lastOp' = "addSignal" /\ minted' = minted + 1) =>
        LET s == signals'[Len(signals')]
        IN \A i \in 1..Len(alertRules) : \A k \in 1..Len(triggered) :
               LET rule == alertRules[i]
                   alert == triggered[k]
               IN (/\ rule.enabled
                   /\ alert.ruleId = rule.id
                   /\ alert.signal.source # s.source
                   /\ Condition(rule.condition, s)
                   /\ now - alert.triggeredAt < rule.cooldown)
                  => /\ \A j \in 1..Len(triggered') : triggered'[j].ruleId # rule.id
                     /\ \A o \in 1..Len(alertRules) :
                           alertRules[o].id # rule.id
                              => ((\E j \in 1..Len(triggered') :
                                       triggered'[j].ruleId = alertRules[o].id)
                                    <=> DueById(alertRules[o].id, s))]_vars

(***************************************************************************)
(* Switch runs: alert rules disabled, enabled again and reset, signals     *)
(* added, time passing between the calls                                   *)
(***************************************************************************)
\* a cooldown longer than the clock value of any call
LongCooldown == 2 * (T0 + 30001)

\* the rules offered in the alert runs and a rule with a long cooldown
SwitchRules ==
    OfferedAlertRules \cup
    {[id |-> "slow", condition |-> "rule2", priority |-> "low",
      cooldown |-> LongCooldown, enabled |-> TRUE]}

SwitchIds == {"high_confidence_launch", "slow", "unknown"}

SwitchInputs(t) ==
    [type : {"launch_detected"}, source : {"A"}, agent : {{}}, confidence : {{}, {95}},
     timestamp : {{t}}, metadata : {NoMetadata}]

NextSwitch ==
    \/ /\ Len(alertRules) < Len(DefaultAlertRules) + MaxSwitchRules
       /\ \E rule \in SwitchRules : AddAlertRule(rule)
    \/ \E ruleId \in SwitchIds : EnableAlert(ruleId)
    \/ \E ruleId \in SwitchIds : DisableAlert(ruleId)
    \/ /\ minted < MaxSwitchSignals
       /\ \E sig \in SwitchInputs(now) : AddSignal(sig)
    \/ Reset
    \/ GetMetrics({})
    \/ Tick

SpecSwitch == Init /\ [][NextSwitch]_vars

\* the ids of the alerts a call returned
AlertIds(alerts) == {alerts[j].ruleId : j \in 1..Len(alerts)}

\* C31: a disabled rule produces no alert; enableAlert and disableAlert leave
\* the last-fired times alone, so a rule that is enabled inside its cooldown
\* produces no alert; with an unknown id they change nothing
C31_DisabledRules ==
    [][/\ (lastOp' = "addSignal" /\ minted' = minted + 1)
            => \A i \in 1..Len(alertRules) :
                   LET rule == alertRules[i]
                   IN (\/ ~rule.enabled
                       \/ now - LastAlertOf(lastAlerts, rule.id) < rule.cooldown)
                      => rule.id \notin AlertIds(triggered')
       /\ lastOp' \in {"enableAlert", "disableAlert"}
            => /\ lastAlerts' = lastAlerts
               /\ Len(alertRules') = Len(alertRules)
       /\ \A ruleId \in SwitchIds :
             (/\ EnableAlert(ruleId) \/ DisableAlert(ruleId)
              /\ \A i \in 1..Len(alertRules) : alertRules[i].id # ruleId)
                => alertRules' = alertRules]_vars

\* the rules registered when a call starts that match and meet their
\* threshold on the buffer as the call's push leaves it
DueRules(buf) ==
    {i \in 1..Len(correlationRules) : RuleEmits(buf, correlationRules[i], now, now)}

\* C32: in one processSignal call every registered rule is evaluated, also
\* after an earlier rule has emitted: each rule that matches and meets its
\* threshold emits its composite and runs its action exactly once, and the
\* first composite is returned
C32_EveryRuleOnce ==
    [][(lastOp' = "processSignal" /\ minted' > minted) =>
        LET buf == SubSeq(signalBuffer', 1, Len(signalBuffer) + 1)
            due == DueRules(buf)
            visits(i) == {k \in 1..Len(evalLog') : evalLog'[k].rule = i}
        IN /\ thrown' = {}
           /\ \A i \in 1..Len(correlationRules) :
                 /\ Cardinality(visits(i)) = 1
                 /\ \A k \in visits(i) :
                       /\ evalLog'[k].slot # 0 <=> i \in due
                       /\ i \in due =>
                             results'[evalLog'[k].slot].ruleId = correlationRules[i].id
           /\ minted' - minted - 1
                = Cardinality({i \in due :
                                   ActionOf(correlationRules[i]) = "registerSignal"})
           /\ Len(correlationRules') - Len(correlationRules)
                = Cardinality({i \in due :
                                   ActionOf(correlationRules[i]) = "addCorrelationRule"})
           /\ returned' = FirstOrNull(results')]_vars

\* C33: reset() empties the history and the last-fired times and leaves the
\* rules and their enabled flags; after it getMetrics().totalSignals is 0, and
\* an enabled rule that fired before the reset and would still be in its
\* cooldown fires on the next signal that satisfies its predicate
C33_Reset ==
    [][/\ lastOp' = "reset"
            => /\ signals' = <<>>
               /\ lastAlerts' = <<>>
               /\ alertRules' = alertRules
       /\ (lastOp = "reset" /\ lastOp' = "getMetrics")
            => answer'.value.totalSignals = 0
       /\ (lastOp = "reset" /\ lastOp' = "addSignal")
            => \A i \in 1..Len(alertRules) : \A k \in 1..Len(triggered) :
                   LET rule == alertRules[i]
                   IN (/\ rule.enabled
                       /\ triggered[k].ruleId = rule.id
                       /\ now - triggered[k].triggeredAt < rule.cooldown
                       /\ Condition(rule.condition, signals'[Len(signals')]))
                      => rule.id \in AlertIds(triggered')]_vars

\* a signal added after a reset, inside the cooldown of the default rule that
\* fires for it
C33_Witness ==
    /\ lastOp = "addSignal"
    /\ minted = 2
    /\ Len(signals) = 1
    /\ now - T0 < DefaultAlertRules[1].cooldown
    /\ DefaultAlertRules[1].id \in AlertIds(triggered)

(***************************************************************************)
(* Clock drift runs: the clock may move between the two clock reads a call *)
(* makes for a rule                                                        *)
(***************************************************************************)
DriftInputs == [agent : {"A"}, type : {CexFunding, RapidDeployment}, confidence : {90}]

\* the call reads the clock at correlateSignals and again at getRelevantSignals;
\* k is the rule between whose two reads the clock moves, 0 for none
NextDrift ==
    \/ /\ CoordinatorCalls < MaxDriftCalls
       /\ \E sig \in DriftInputs : RegisterSignal(sig, 0, now)
    \/ /\ CoordinatorCalls < MaxDriftCalls
       /\ \E sig \in DriftInputs : \E k \in 1..Len(correlationRules) :
             \E tj \in Later(now) : RegisterSignal(sig, k, tj)
    \/ /\ CoordinatorCalls < MaxDriftCalls
       /\ \E rule \in CustomRules : AddCorrelationRule(rule)
    \/ Tick

SpecDrift == Init /\ [][NextDrift]_vars

\* C34: a composite emitted for a rule has, among its trigger signals, a
\* signal of every kind the rule requires
C34_TriggersCoverKinds ==
    \A i \in Evaluated :
        Emitted(i) =>
            \A q \in 1..Len(correlationRules[i].requiredSignals) :
                \E x \in 1..Len(CompositeOf(i).triggerSignals) :
                    CompositeOf(i).triggerSignals[x].type
                        = correlationRules[i].requiredSignals[q]

\* C35: processSignal returns a composite only when the signal just ingested
\* is one of the trigger signals of the rule that emitted it, its kind being
\* one of the kinds the rule requires
C35_ReturnedForIngested ==
    (lastOp = "processSignal" /\ returned # <<>>) =>
        LET composite == returned[1]
            ingested == signalBuffer[Len(signalBuffer)]
        IN /\ \E x \in 1..Len(composite.triggerSignals) :
                 composite.triggerSignals[x].hash = ingested.hash
           /\ \E i \in 1..Len(correlationRules) :
                 /\ correlationRules[i].id = composite.ruleId
                 /\ ingested.type \in Range(correlationRules[i].requiredSignals)

\* C36: an enabled rule that has never fired is not skipped for cooldown:
\* the first signal that satisfies its predicate produces an alert for it
C36_NeverFiredFires ==
    [][(lastOp' = "addSignal" /\ minted' = minted + 1) =>
        \A i \in 1..Len(alertRules) :
            LET rule == alertRules[i]
            IN (/\ rule.enabled
                /\ rule.id \notin DOMAIN lastAlerts
                /\ Condition(rule.condition, signals'[Len(signals')]))
               => rule.id \in AlertIds(triggered')]_vars

SumInputs(t) ==
    [type : {"launch_detected", "constructor"}, source : {"A", "B"},
     agent : {{}, {"observer"}}, confidence : {{}, {80}}, timestamp : {{t}},
     metadata : {NoMetadata}]

NextSums ==
    \/ /\ minted < MaxSumCalls
       /\ \E sig \in SumInputs(now) : AddSignal(sig)
    \/ \E timeWindow \in {{}, {30000}} : GetMetrics(timeWindow)
    \/ Tick

SpecSums == Init /\ [][NextSums]_vars

\* the sum of the values of a map of counters
RECURSIVE SumValues(_)
SumValues(map) ==
    IF DOMAIN map = {} THEN 0
    ELSE LET k == CHOOSE x \in DOMAIN map : TRUE
         IN map[k] + SumValues([x \in DOMAIN map \ {k} |-> map[x]])

\* every value of the map is a count, and the counts sum to total
SumsTo(map, total) ==
    /\ \A k \in DOMAIN map : map[k] # NotACount
    /\ SumValues(map) = total

\* C38: in every snapshot of getMetrics the values of signalsByType, of
\* signalsByAgent and of signalsBySource each sum to totalSignals; low +
\* medium + high is the number of window signals that carry a confidence, at
\* most totalSignals; totalSignals is at most the length of the history
C38_Sums ==
    answer.op = "getMetrics" =>
        LET m == answer.value
            window == WindowSignals(signals, answer.timeWindow, answer.at)
            scored == {i \in 1..Len(window) : window[i].confidence # {}}
        IN /\ SumsTo(m.signalsByType, m.totalSignals)
           /\ SumsTo(m.signalsByAgent, m.totalSignals)
           /\ SumsTo(m.signalsBySource, m.totalSignals)
           /\ m.confidenceDistribution.low + m.confidenceDistribution.medium
                + m.confidenceDistribution.high = Cardinality(scored)
           /\ Cardinality(scored) <= m.totalSignals
           /\ m.totalSignals <= Len(signals)

\* the histories that hold the signals of hist, each as often, in any order
Reorderings(hist) ==
    LET n == Len(hist)
        orders == {f \in [1..n -> 1..n] : \A i, j \in 1..n : f[i] = f[j] => i = j}
    IN {[i \in 1..n |-> hist[f[i]]] : f \in orders}

\* two fractions that are the same number
SameNumber(a, b) == a.num * b.den = b.num * a.den

\* C39: the per-agent average confidence of a snapshot is the same for every
\* history that is a permutation of the one it was taken from
C39_OrderIndependent ==
    answer.op = "getMetrics" =>
        \A other \in Reorderings(signals) :
            LET mine == answer.value.agentMetrics
                theirs == MetricsOf(other, answer.timeWindow, answer.at).agentMetrics
            IN /\ DOMAIN theirs = DOMAIN mine
               /\ \A a \in DOMAIN mine :
                     SameNumber(theirs[a].averageConfidence, mine[a].averageConfidence)

\* C40: for one history and one clock value, getMetrics(w1).totalSignals <=
\* getMetrics(w2).totalSignals whenever 0 <= w1 <= w2, and types that
\* correlate under correlateSignals(types, w1) correlate under
\* correlateSignals(types, w2); w1 may be 0
C40_WindowMonotone ==
    /\ (answer.op = "getMetrics" /\ answer.timeWindow # {}) =>
          \A w1 \in QueryWindows \ {{}} :
              OrZero(w1) <= OrZero(answer.timeWindow)
                 => MetricsOf(signals, w1, answer.at).totalSignals
                       <= answer.value.totalSignals
    /\ (answer.op = "correlateSignals" /\ answer.timeWindow # {}) =>
          \A w1 \in QueryWindows \ {{}} :
              (/\ OrZero(w1) <= OrZero(answer.timeWindow)
               /\ CorrelateSignals(signalBuffer, answer.signalTypes, OrZero(w1),
                                   answer.at))
                 => answer.value

====
